---------------------------- MODULE Spec2Model ----------------------------
(***************************************************************************)
(* Model of the playback and queue engine of xdBot.                        *)
(*                                                                         *)
(* The repository holds two players side by side:                          *)
(*   - the cog-based player: utils/music_queue.py (QueueManager),          *)
(*     utils/music_player.py (MusicPlayer) and the cogs player_cog.py,     *)
(*     queue_cog.py, effects_cog.py that drive them;                       *)
(*   - the queue-based player: cogs/voice/player.py (MusicPlayer with an   *)
(*     asyncio.Queue and a player_loop task) driven by voice_cog.py and    *)
(*     ui.py.                                                              *)
(* One guild is modelled; every dictionary keyed by guild id becomes the   *)
(* value stored for that guild.                                            *)
(*                                                                         *)
(* The specifications share the variables:                                 *)
(*   SpecQM       the QueueManager driven directly, operation by operation *)
(*   SpecRemove   the /remove command on the queues additions, /next and   *)
(*                /prev produce                                            *)
(*   SpecCog      the cog-based player (commands, voice client, callbacks) *)
(*   SpecSeek     /play and /seek of the cog-based player                  *)
(*   SpecPlayer   the queue-based player (player_loop, seek, skip, loop)   *)
(*   SpecVote     skipping in the queue-based player: command, votes and   *)
(*                button, with members joining and leaving                 *)
(*   SpecProgress the queue-based player against the clock: play, pause,   *)
(*                resume, seek, get_progress                               *)
(*   SpecPause    the same without seek                                    *)
(*   SpecTick     the progress task of the cog-based player: play, pause,  *)
(*                resume, effects and the one-second ticks                 *)
(*   SpecFfmpeg   /play of the cog-based player with a transcoder that may *)
(*                fail to spawn                                            *)
(*   SpecShuffle  /shuffle of both players                                 *)
(*   SpecLife     creation and teardown of the queue-based player: /play,  *)
(*                /leave, /stop, loss of the voice connection              *)
(*   SpecLoop     player_loop with the loop modes and teardown             *)
(*   SpecQueue    edits of the queue of the queue-based player: /clear,    *)
(*                /remove, /shuffle and the Stop button against the loop   *)
(*   SpecQueueFair  SpecQueue with the event loop running every task that  *)
(*                is ready                                                 *)
(*   SpecResolve  /play with its track resolution in flight against        *)
(*                /stop, /leave and the cleanup tasks                      *)
(***************************************************************************)
EXTENDS Integers, Sequences, FiniteSets, TLC

\* ------------------------------------------------------------- bounds
NumTracks == 2
MaxQueue == 3
MaxBatch == 2
MaxTimerTasks == 2
MaxPending == 1
MaxPlayerQueue == 2
TrackDuration == 3
MaxTime == 3
NumListeners == 3
MaxCleanupTasks == 1
MaxProgressLoops == 2

Tracks == 1..NumTracks
Listeners == 1..NumListeners
None == 0

VARIABLES
    \* QueueManager (utils/music_queue.py), for the one guild
    queues,             \* self.queues[guild]: sequence of tracks
    qm_known,           \* guild_id in self.queues
    current_index,      \* self.current_index[guild], 0-based
    loop_mode,          \* self.loop_mode[guild]: 0 off, 1 single, 2 queue
    inactivity_timers,  \* self.inactivity_timers[guild]: a task id, or None
    timer_task,         \* state of every _inactivity_countdown task created
    auto_playing,       \* self._auto_playing[guild]
    \* the guild's voice connection (discord.VoiceClient)
    vc_connected,       \* voice_client.is_connected()
    vc_player,          \* the audio source playing into the connection
    after_pending,      \* sources told to stop or run out, whose `after`
                        \* callback has not run yet
    \* utils/music_player.py MusicPlayer and utils/audio_effects.py
    vc_registered,      \* guild_id in self.voice_clients
    current_track,      \* self.current_track[guild], or None
    current_effect,     \* effect_manager.current_effect.get(guild, "none")
    remove_reply,       \* what the last /remove command answered
    start_time,         \* current_track[guild]['start_time'], in seconds
    progress_loops,     \* start_progress_updates tasks alive that hold the
                        \* track data that is current
    source_position,    \* seconds of the track the playing source has
                        \* reached
    shuffle_result,     \* what shuffle_queue returned to the last /shuffle
    track_notified,     \* the tracks last passed to the registered
                        \* track-start and track-end callbacks
    \* cogs/voice/player.py MusicPlayer (the queue-based player) of the guild
    player_task,        \* where self._player_task (player_loop) is suspended
    player_queue,       \* self.queue (asyncio.Queue), head first
    next,               \* self.next.is_set()
    next_cause,         \* why the source whose callback set self.next ended
    current,            \* self.current, or None
    player_loop_mode,   \* self.loop_mode: "off", "song" or "queue"
    skip_votes,         \* self.skip_votes
    seek_offset,        \* self.seek_offset
    fetch_url,          \* the url player_loop is re-resolving, or None
    seek_url,           \* original_url of the seek() call in flight, or None
    seek_seconds,       \* seconds of the seek() call in flight
    seek_update,        \* target of the seek() call that has played its
                        \* source and awaits update_now_playing_message
    playback_start_time, \* self.playback_start_time, None before a source
    now,                \* time.time(), in seconds
    \* the voice channel the bot is in
    channel_members,    \* number of non-bot members in the channel
    \* cogs/voice/voice_cog.py Voice, and the life of the guild's MusicPlayer
    player_registered,  \* guild_id in self.players
    destroyed,          \* self._destroyed of the guild's MusicPlayer
    cleanup_tasks,      \* CogCleanup tasks destroy() created, not yet run
    loop_get,           \* the queue object player_loop's queue.get() is
                        \* suspended on: on "queue" it is self.queue, on
                        \* "old" an object self.queue no longer names,
                        \* holding items
    np_controls,        \* the now-playing message shows its buttons
    play_pending,       \* a /play awaits the resolution of its track:
                        \* "resolving" when it holds the guild's player,
                        \* "stale" when that player has been replaced
    voice_event         \* the bot's own voice-state update (its channel
                        \* became None) is not handled yet

qmvars == <<queues, qm_known, current_index, loop_mode, inactivity_timers,
            timer_task, auto_playing>>
vcvars == <<vc_connected, vc_player, after_pending>>
cogvars == <<vc_registered, current_track, current_effect, remove_reply,
             start_time, progress_loops,
             source_position, shuffle_result, track_notified>>
pvars == <<player_task, player_queue, next, next_cause, current,
           player_loop_mode, skip_votes, seek_offset, fetch_url, seek_url,
           seek_seconds, seek_update, playback_start_time, now,
           channel_members, player_registered, destroyed, cleanup_tasks,
           loop_get, np_controls, play_pending, voice_event>>
lifevars == <<player_registered, destroyed, cleanup_tasks, loop_get,
              np_controls, play_pending, voice_event>>
vars == <<queues, qm_known, current_index, loop_mode, inactivity_timers,
          timer_task, auto_playing, vc_connected, vc_player, after_pending,
          vc_registered, current_track, current_effect, remove_reply,
          start_time, progress_loops, source_position, shuffle_result,
          track_notified, player_task,
          player_queue, next, next_cause, current, player_loop_mode,
          skip_votes, seek_offset, fetch_url, seek_url, seek_seconds,
          seek_update, playback_start_time, now, channel_members,
          player_registered, destroyed, cleanup_tasks, loop_get,
          np_controls, play_pending, voice_event>>

TimerIds == 1..MaxTimerTasks

\* player_loop is not suspended in queue.get()
NoGet == [on |-> "none", items |-> <<>>]

\* no MusicPlayer of cogs/voice/player.py exists for the guild
NoMusicPlayer ==
    /\ player_task = "none"
    /\ player_queue = <<>>
    /\ next = FALSE
    /\ next_cause = "none"
    /\ current = None
    /\ player_loop_mode = "off"
    /\ skip_votes = {}
    /\ seek_offset = 0
    /\ fetch_url = None
    /\ seek_url = None
    /\ seek_seconds = 0
    /\ seek_update = 0
    /\ playback_start_time = None
    /\ now = 1
    /\ player_registered = FALSE
    /\ destroyed = FALSE
    /\ cleanup_tasks = 0
    /\ loop_get = NoGet
    /\ np_controls = FALSE
    /\ play_pending = "none"
    /\ voice_event = FALSE

\* no audio source: voice_client._player is None
NoPlayer == [track |-> None, paused |-> FALSE, hook |-> "none", seek |-> 0]

\* ------------------------------------------------------ list helpers
\* list.pop(i), i 0-based
ListPop(q, i) == [k \in 1..(Len(q) - 1) |-> IF k <= i THEN q[k] ELSE q[k + 1]]

\* list.insert(i, x), i 0-based and 0 <= i <= len(q)
ListInsert(q, i, x) ==
    [k \in 1..(Len(q) + 1) |->
        IF k <= i THEN q[k] ELSE IF k = i + 1 THEN x ELSE q[k - 1]]

\* every ordering random.shuffle can leave a list in
Shuffles(q) ==
    {[k \in 1..Len(q) |-> q[p[k]]] :
        p \in {f \in [1..Len(q) -> 1..Len(q)] :
                  \A a, b \in 1..Len(q) : a # b => f[a] # f[b]}}

Max(a, b) == IF a >= b THEN a ELSE b
Min(a, b) == IF a <= b THEN a ELSE b

\* Python's a % b for b > 0 (the result is never negative)
PyMod(a, b) == ((a % b) + b) % b

\* --------------------------------------------- QueueManager as a value
\* The QueueManager's fields for the guild, as one record the methods map.
QM ==
    [queues |-> queues, known |-> qm_known, current_index |-> current_index,
     loop_mode |-> loop_mode, timer |-> inactivity_timers, tasks |-> timer_task]

Install(S) ==
    /\ queues' = S.queues
    /\ qm_known' = S.known
    /\ current_index' = S.current_index
    /\ loop_mode' = S.loop_mode
    /\ inactivity_timers' = S.timer
    /\ timer_task' = S.tasks

\* cancel_inactivity_timer: Task.cancel() on a task that has not run yet never
\* enters its try block; on a sleeping task it raises CancelledError at the
\* sleep, and the task's finally clause runs later.
cancel_inactivity_timer(S) ==
    IF S.timer # None /\ S.tasks[S.timer] \in {"created", "sleeping"}
    THEN [S EXCEPT !.tasks[S.timer] =
                       IF @ = "created" THEN "done" ELSE "cancelled",
                   !.timer = None]
    ELSE S

add_to_queue(S, track) ==
    LET S1 == IF ~S.known
              THEN [S EXCEPT !.known = TRUE, !.queues = <<>>,
                             !.current_index = 0, !.loop_mode = 0]
              ELSE S
        S2 == [S1 EXCEPT !.queues = Append(@, track)]
    IN  cancel_inactivity_timer(S2)

add_multiple_to_queue(S, tracks) ==
    LET S1 == IF ~S.known
              THEN [S EXCEPT !.known = TRUE, !.queues = <<>>,
                             !.current_index = 0, !.loop_mode = 0]
              ELSE S
        S2 == [S1 EXCEPT !.queues = @ \o tracks]
    IN  cancel_inactivity_timer(S2)

\* remove_from_queue; position is 0-based.  Unknown guild or bad position:
\* nothing changes.
\* remove_from_queue without its second adjustment (the elif branch that
\* pulls the index back when it has fallen off the end of the list)
remove_from_queue_no_clamp(S, position) ==
    IF ~S.known \/ position < 0 \/ position >= Len(S.queues)
    THEN S
    ELSE LET queue == ListPop(S.queues, position)
             current_idx == S.current_index
         IN  [S EXCEPT !.queues = queue,
                       !.current_index =
                           IF position < current_idx
                           THEN Max(0, current_idx - 1)
                           ELSE current_idx]

remove_from_queue(S, position) ==
    IF ~S.known \/ position < 0 \/ position >= Len(S.queues)
    THEN S
    ELSE LET queue == ListPop(S.queues, position)
             current_idx == S.current_index
         IN  [S EXCEPT !.queues = queue,
                       !.current_index =
                           IF position < current_idx
                           THEN Max(0, current_idx - 1)
                           ELSE IF current_idx >= Len(queue)
                           THEN Max(0, Len(queue) - 1)
                           ELSE current_idx]

clear_queue(S) ==
    IF ~S.known
    THEN S
    ELSE IF 0 <= S.current_index /\ S.current_index < Len(S.queues)
    THEN [S EXCEPT !.queues = <<S.queues[S.current_index + 1]>>,
                   !.current_index = 0]
    ELSE [S EXCEPT !.queues = <<>>, !.current_index = 0]

\* move_in_queue that leaves current_index where it was
move_in_queue_no_adjust(S, from_pos, to_pos) ==
    IF \/ ~S.known
       \/ from_pos < 0 \/ from_pos >= Len(S.queues)
       \/ to_pos < 0 \/ to_pos >= Len(S.queues)
       \/ from_pos = S.current_index
    THEN S
    ELSE [S EXCEPT !.queues = ListInsert(ListPop(S.queues, from_pos), to_pos,
                                         S.queues[from_pos + 1])]

move_in_queue(S, from_pos, to_pos) ==
    IF \/ ~S.known
       \/ from_pos < 0 \/ from_pos >= Len(S.queues)
       \/ to_pos < 0 \/ to_pos >= Len(S.queues)
       \/ from_pos = S.current_index
    THEN S
    ELSE LET current_idx == S.current_index
             track == S.queues[from_pos + 1]
             queue == ListInsert(ListPop(S.queues, from_pos), to_pos, track)
         IN  [S EXCEPT !.queues = queue,
                       !.current_index =
                           IF from_pos < current_idx /\ to_pos >= current_idx
                           THEN current_idx - 1
                           ELSE IF from_pos > current_idx /\ to_pos <= current_idx
                           THEN current_idx + 1
                           ELSE current_idx]

\* shuffle_queue: the set of states random.shuffle can produce
\* a shuffle of the whole list, the current track included, that leaves the
\* index where it was
shuffle_queue_whole(S) ==
    IF ~S.known \/ Len(S.queues) <= 1
    THEN {S}
    ELSE {[S EXCEPT !.queues = sh] : sh \in Shuffles(S.queues)}

\* what shuffle_queue returns
shuffle_queue_returns(S) == ~(~S.known \/ Len(S.queues) <= 1)

shuffle_queue(S) ==
    IF ~S.known \/ Len(S.queues) <= 1
    THEN {S}
    ELSE LET current_idx == S.current_index
             has_current == 0 <= current_idx /\ current_idx < Len(S.queues)
             new_queue == IF has_current
                          THEN ListPop(S.queues, current_idx)
                          ELSE S.queues
         IN  {[S EXCEPT !.queues =
                            IF has_current
                            THEN <<S.queues[current_idx + 1]>> \o sh
                            ELSE sh,
                        !.current_index = 0] : sh \in Shuffles(new_queue)}

\* get_next_track: [state, ret], ret the track returned or None
get_next_track(S) ==
    IF ~S.known \/ S.queues = <<>>
    THEN [state |-> S, ret |-> None]
    ELSE LET queue == S.queues
             current_idx == S.current_index
         IN  IF S.loop_mode = 1
             THEN IF 0 <= current_idx /\ current_idx < Len(queue)
                  THEN [state |-> S, ret |-> queue[current_idx + 1]]
                  ELSE [state |-> [S EXCEPT !.current_index = 0],
                        ret |-> queue[1]]
             ELSE IF S.loop_mode = 2
             THEN LET next_idx == PyMod(current_idx + 1, Len(queue))
                  IN  [state |-> [S EXCEPT !.current_index = next_idx],
                       ret |-> queue[next_idx + 1]]
             ELSE LET next_idx == current_idx + 1
                  IN  IF next_idx < Len(queue)
                      THEN [state |-> [S EXCEPT !.current_index = next_idx],
                            ret |-> queue[next_idx + 1]]
                      ELSE [state |-> S, ret |-> None]

get_previous_track(S) ==
    IF ~S.known \/ S.queues = <<>>
    THEN [state |-> S, ret |-> None]
    ELSE LET queue == S.queues
             current_idx == S.current_index
         IN  IF S.loop_mode = 1
             THEN IF 0 <= current_idx /\ current_idx < Len(queue)
                  THEN [state |-> S, ret |-> queue[current_idx + 1]]
                  ELSE [state |-> [S EXCEPT !.current_index = 0],
                        ret |-> queue[1]]
             ELSE IF S.loop_mode = 2
             THEN LET prev_idx == PyMod(current_idx - 1, Len(queue))
                  IN  [state |-> [S EXCEPT !.current_index = prev_idx],
                       ret |-> queue[prev_idx + 1]]
             ELSE LET prev_idx == current_idx - 1
                  IN  IF prev_idx >= 0
                      THEN [state |-> [S EXCEPT !.current_index = prev_idx],
                            ret |-> queue[prev_idx + 1]]
                      ELSE [state |-> S, ret |-> None]

get_current_track(S) ==
    IF ~S.known \/ S.queues = <<>>
    THEN None
    ELSE IF 0 <= S.current_index /\ S.current_index < Len(S.queues)
    THEN S.queues[S.current_index + 1]
    ELSE None

\* set_loop_mode: a mode outside (0, 1, 2) raises ValueError before the store
set_loop_mode(S, mode) ==
    IF mode \notin {0, 1, 2} THEN S ELSE [S EXCEPT !.loop_mode = mode]

\* the lowest task id not used yet
FreshTimer(S) == CHOOSE i \in TimerIds :
                    /\ S.tasks[i] = "none"
                    /\ \A j \in TimerIds : S.tasks[j] = "none" => i <= j

\* start_inactivity_timer: cancel the registered timer, create and register a
\* new countdown task
start_inactivity_timer(S) ==
    LET S1 == cancel_inactivity_timer(S)
        id == FreshTimer(S1)
    IN  [S1 EXCEPT !.tasks[id] = "created", !.timer = id]

\* ----------------------------------------------- SpecQM: the operations
CanStartTimer == \E i \in TimerIds : timer_task[i] = "none"

QM_AddToQueue ==
    /\ Len(queues) < MaxQueue
    /\ \E t \in Tracks : Install(add_to_queue(QM, t))
    /\ UNCHANGED <<auto_playing, vcvars, cogvars>>
    /\ UNCHANGED pvars

QM_AddMultipleToQueue ==
    /\ \E n \in 0..MaxBatch : \E ts \in [1..n -> Tracks] :
          /\ Len(queues) + n <= MaxQueue
          /\ Install(add_multiple_to_queue(QM, ts))
    /\ UNCHANGED <<auto_playing, vcvars, cogvars>>
    /\ UNCHANGED pvars

QM_RemoveFromQueue ==
    /\ \E position \in -1..MaxQueue : Install(remove_from_queue(QM, position))
    /\ UNCHANGED <<auto_playing, vcvars, cogvars>>
    /\ UNCHANGED pvars

QM_ClearQueue ==
    /\ Install(clear_queue(QM))
    /\ UNCHANGED <<auto_playing, vcvars, cogvars>>
    /\ UNCHANGED pvars

QM_MoveInQueue ==
    /\ \E from_pos \in -1..MaxQueue : \E to_pos \in -1..MaxQueue :
          Install(move_in_queue(QM, from_pos, to_pos))
    /\ UNCHANGED <<auto_playing, vcvars, cogvars>>
    /\ UNCHANGED pvars

QM_ShuffleQueue ==
    /\ \E S \in shuffle_queue(QM) : Install(S)
    /\ UNCHANGED <<auto_playing, vcvars, cogvars>>
    /\ UNCHANGED pvars

QM_GetNextTrack ==
    /\ Install(get_next_track(QM).state)
    /\ UNCHANGED <<auto_playing, vcvars, cogvars>>
    /\ UNCHANGED pvars

QM_GetPreviousTrack ==
    /\ Install(get_previous_track(QM).state)
    /\ UNCHANGED <<auto_playing, vcvars, cogvars>>
    /\ UNCHANGED pvars

QM_SetLoopMode ==
    /\ \E mode \in 0..3 : Install(set_loop_mode(QM, mode))
    /\ UNCHANGED <<auto_playing, vcvars, cogvars>>
    /\ UNCHANGED pvars

QM_StartInactivityTimer ==
    /\ CanStartTimer
    /\ Install(start_inactivity_timer(QM))
    /\ UNCHANGED <<auto_playing, vcvars, cogvars>>
    /\ UNCHANGED pvars

QM_CancelInactivityTimer ==
    /\ Install(cancel_inactivity_timer(QM))
    /\ UNCHANGED <<auto_playing, vcvars, cogvars>>
    /\ UNCHANGED pvars

\* _inactivity_countdown, first step: the task starts and sleeps
CountdownStarts ==
    /\ \E id \in TimerIds :
          /\ timer_task[id] = "created"
          /\ timer_task' = [timer_task EXCEPT ![id] = "sleeping"]
    /\ UNCHANGED <<queues, qm_known, current_index, loop_mode,
                   inactivity_timers, auto_playing, vcvars, cogvars>>
    /\ UNCHANGED pvars

\* _inactivity_countdown, sleep over: disconnect, then the finally clause
CountdownExpires ==
    /\ \E id \in TimerIds :
          /\ timer_task[id] = "sleeping"
          /\ timer_task' = [timer_task EXCEPT ![id] = "done"]
    /\ vc_connected' = FALSE
    /\ inactivity_timers' = None
    /\ UNCHANGED <<queues, qm_known, current_index, loop_mode, auto_playing,
                   vc_player, after_pending, cogvars>>
    /\ UNCHANGED pvars

\* _inactivity_countdown cancelled in its sleep: except CancelledError, then
\* the finally clause pops whatever is registered for the guild
CountdownCancelled ==
    /\ \E id \in TimerIds :
          /\ timer_task[id] = "cancelled"
          /\ timer_task' = [timer_task EXCEPT ![id] = "done"]
    /\ inactivity_timers' = None
    /\ UNCHANGED <<queues, qm_known, current_index, loop_mode, auto_playing,
                   vcvars, cogvars>>
    /\ UNCHANGED pvars

InitQM ==
    /\ queues = <<>>
    /\ qm_known = FALSE
    /\ current_index = 0
    /\ loop_mode = 0
    /\ inactivity_timers = None
    /\ timer_task = [i \in TimerIds |-> "none"]
    /\ auto_playing = FALSE
    /\ vc_connected = TRUE
    /\ vc_player = NoPlayer
    /\ after_pending = <<>>
    /\ vc_registered = TRUE
    /\ current_track = None
    /\ current_effect = "none"
    /\ remove_reply = "none"
    /\ start_time = 0
    /\ progress_loops = 0
    /\ source_position = 0
    /\ shuffle_result = "none"
    /\ track_notified = [start |-> None, end |-> None]
    /\ NoMusicPlayer
    /\ channel_members = 0

\* ------------------------------------------- discord.VoiceClient as a value
\* The voice connection: [connected, player, pending].
VC == [connected |-> vc_connected, player |-> vc_player, pending |-> after_pending]

\* voice_client.is_playing(): a source is attached and not paused
vc_is_playing(V) == V.player.track # None /\ ~V.player.paused

\* voice_client.is_paused()
vc_is_paused(V) == V.player.track # None /\ V.player.paused

\* voice_client.stop(): the source is detached at once; its `after` callback
\* runs later, from the audio thread.  cause and idx only label the pending
\* callback: why the source ended and, for a skip, the queue position the
\* skipped track had (0 otherwise).
vc_stop(V, cause, idx) ==
    IF V.player.track = None
    THEN V
    ELSE [V EXCEPT !.pending = Append(@, [track |-> V.player.track,
                                          cause |-> cause,
                                          hook |-> V.player.hook,
                                          idx |-> idx]),
                   !.player = NoPlayer]

\* voice_client.play(source, after=hook) raises ClientException when the client
\* is not connected or is already playing
vc_can_play(V) == V.connected /\ ~vc_is_playing(V)

vc_play(V, track, hook, seek) ==
    [V EXCEPT !.player = [track |-> track, paused |-> FALSE, hook |-> hook,
                          seek |-> seek]]

\* --------------------------------------------------- the cog-based player
\* The cog-based player's state for the guild, as one record.
Cog ==
    [qm |-> QM, vc |-> VC, registered |-> vc_registered,
     current_track |-> current_track, effect |-> current_effect,
     reply |-> remove_reply, start_time |-> start_time,
     progress_loops |-> progress_loops,
     source_position |-> source_position,
     shuffle_result |-> shuffle_result, notified |-> track_notified]

InstallCog(C) ==
    /\ Install(C.qm)
    /\ vc_connected' = C.vc.connected
    /\ vc_player' = C.vc.player
    /\ after_pending' = C.vc.pending
    /\ vc_registered' = C.registered
    /\ current_track' = C.current_track
    /\ current_effect' = C.effect
    /\ remove_reply' = C.reply
    /\ start_time' = C.start_time
    /\ progress_loops' = C.progress_loops
    /\ source_position' = C.source_position
    /\ shuffle_result' = C.shuffle_result
    /\ track_notified' = C.notified

\* MusicPlayer.join_voice_channel (the caller is in a voice channel): the
\* registered client is reused; otherwise voice_channel.connect(), which raises
\* when the guild still holds a connection.  [ok, st]
join_voice_channel(C) ==
    IF C.registered
    THEN [ok |-> TRUE, st |-> C]
    ELSE IF C.vc.connected
    THEN [ok |-> FALSE, st |-> C]
    ELSE [ok |-> TRUE, st |-> [C EXCEPT !.registered = TRUE,
                                        !.vc.connected = TRUE]]

\* the progress tasks that hold the track data about to become current: the
\* tasks started for another track go on updating that track's data
other_track_data(C, track_data, loops) ==
    IF C.current_track = track_data THEN loops ELSE 0

\* the progress task play and seek create after voice_client.play: it
\* returns at once unless the voice client is playing
start_progress_updates(C) ==
    IF vc_is_playing(C.vc)
    THEN [C EXCEPT !.progress_loops = @ + 1]
    ELSE C

\* MusicPlayer.create_stream_player: current_track is stored before
\* voice_client.play, which raises when a source is already playing (the
\* fallback raises again and the exception leaves the method).
create_stream_player(C, track_data) ==
    IF ~C.vc.connected
    THEN C
    ELSE IF vc_can_play(C.vc)
    THEN [C EXCEPT !.current_track = track_data,
                   !.progress_loops = other_track_data(C, track_data, @),
                   !.source_position = 0,
                   !.vc = vc_play(C.vc, track_data, "after_functions", 0)]
    ELSE [C EXCEPT !.current_track = track_data,
                   !.progress_loops = other_track_data(C, track_data, @)]

\* MusicPlayer.create_stream_player when discord.FFmpegPCMAudio may fail to
\* spawn the transcoder: first_spawns for the options chosen, fallback_spawns
\* for the simpler options of the one retry.  current_track is stored only
\* after a spawn succeeded; the failure of the retry is raised to the caller.
\* attempts counts the spawns tried.
create_stream_player_ffmpeg(C, track_data, first_spawns, fallback_spawns) ==
    IF ~C.vc.connected
    THEN [st |-> C, raised |-> FALSE, attempts |-> 0]
    ELSE IF first_spawns /\ vc_can_play(C.vc)
    THEN [st |-> [C EXCEPT !.current_track = track_data,
                           !.source_position = 0,
                           !.vc = vc_play(C.vc, track_data,
                                          "after_functions", 0)],
          raised |-> FALSE, attempts |-> 1]
    ELSE LET C1 == IF first_spawns
                   THEN [C EXCEPT !.current_track = track_data]
                   ELSE C
         IN  IF ~fallback_spawns
             THEN [st |-> C1, raised |-> TRUE, attempts |-> 2]
             ELSE IF vc_can_play(C1.vc)
             THEN [st |-> [C1 EXCEPT !.current_track = track_data,
                                     !.source_position = 0,
                                     !.vc = vc_play(C1.vc, track_data,
                                                    "after_functions", 0)],
                   raised |-> FALSE, attempts |-> 2]
             ELSE [st |-> [C1 EXCEPT !.current_track = track_data],
                   raised |-> TRUE, attempts |-> 2]

\* QueueManager._notify_track_end: the registered on_track_end does nothing
notify_track_end(C, track) == [C EXCEPT !.notified.end = track]

\* QueueManager._notify_track_start: the registered on_track_start updates
\* the now-playing message, which creates a progress task
notify_track_start(C, track) ==
    start_progress_updates([C EXCEPT !.notified.start = track])

\* QueueManager.handle_track_finished(guild_id, voice_client, player,
\* track_data): the end of track_data is notified; unless another call is
\* at work, the next track is played and its start notified, or the
\* inactivity timer started
handle_track_finished(C, auto, track_data) ==
    LET C1 == notify_track_end(C, track_data)
    IN  IF auto
        THEN C1
        ELSE LET r == get_next_track(C1.qm)
             IN  IF r.ret # None
                 THEN notify_track_start(
                          create_stream_player([C1 EXCEPT !.qm = r.state],
                                               r.ret),
                          r.ret)
                 ELSE [C1 EXCEPT !.qm = start_inactivity_timer(r.state)]

\* the number of arguments _call_after_functions passes to each registered
\* callback: callback(guild_id, error)
AfterCallArgs == 2

\* the number of parameters of the callback base_cog.get_player registers,
\* handle_track_finished(guild_id, voice_client, player, track_data)
HandleTrackFinishedParams == 4

\* MusicPlayer._call_after_functions: a callback that raises (a TypeError for a
\* call with the wrong number of arguments included) is logged and skipped
call_after_functions(C, auto, track_data) ==
    IF AfterCallArgs = HandleTrackFinishedParams
    THEN handle_track_finished(C, auto, track_data)
    ELSE C

\* player_cog.play after the voice client was obtained and no source is
\* playing: the track is enqueued, recorded as current and played; the track
\* data get_track_info built has start_time 0
play_body(C, t) ==
    LET C1 == [C EXCEPT !.qm = add_to_queue(C.qm, t), !.current_track = t,
                        !.start_time = 0, !.progress_loops = 0]
        C2 == IF vc_is_playing(C1.vc)
              THEN [C1 EXCEPT !.vc = vc_stop(C1.vc, "stop", 0)]
              ELSE C1
    IN  start_progress_updates(create_stream_player(C2, t))

\* play_body with a transcoder that may fail to spawn: the exception
\* create_stream_player raises is caught by play, which only reports it
play_body_ffmpeg(C, t, first_spawns, fallback_spawns) ==
    LET C1 == [C EXCEPT !.qm = add_to_queue(C.qm, t), !.current_track = t,
                        !.start_time = 0, !.progress_loops = 0]
        C2 == IF vc_is_playing(C1.vc)
              THEN [C1 EXCEPT !.vc = vc_stop(C1.vc, "stop", 0)]
              ELSE C1
        r == create_stream_player_ffmpeg(C2, t, first_spawns, fallback_spawns)
    IN  IF r.raised THEN r.st ELSE start_progress_updates(r.st)

\* queue_cog.add_to_queue reached from player_cog.play reached from
\* queue_cog.add_to_queue: the track is in the queue already, so the position
\* returned is not 1
add_leaf(C, t) ==
    LET j == join_voice_channel(C)
    IN  IF ~j.ok THEN C ELSE [j.st EXCEPT !.qm = add_to_queue(j.st.qm, t)]

\* player_cog.play called by queue_cog.add_to_queue for a first track
play_inner(C, t) ==
    LET j == join_voice_channel(C)
    IN  IF ~j.ok THEN C
        ELSE IF vc_is_playing(j.st.vc) THEN add_leaf(j.st, t)
        ELSE play_body(j.st, t)

\* queue_cog.MusicQueue.add_to_queue (/add)
cog_add_to_queue(C, t) ==
    LET j == join_voice_channel(C)
    IN  IF ~j.ok THEN C
        ELSE LET C1 == [j.st EXCEPT !.qm = add_to_queue(j.st.qm, t)]
                 position == Len(C1.qm.queues)
             IN  IF position = 1 THEN play_inner(C1, t) ELSE C1

\* player_cog.MusicPlayer.play (/play)
cog_play(C, t) ==
    LET j == join_voice_channel(C)
    IN  IF ~j.ok THEN C
        ELSE IF vc_is_playing(j.st.vc) THEN cog_add_to_queue(j.st, t)
        ELSE play_body(j.st, t)

\* player_cog.MusicPlayer.play (/play) with a transcoder that may fail to
\* spawn
cog_play_ffmpeg(C, t, first_spawns, fallback_spawns) ==
    LET j == join_voice_channel(C)
    IN  IF ~j.ok THEN C
        ELSE IF vc_is_playing(j.st.vc) THEN cog_add_to_queue(j.st, t)
        ELSE play_body_ffmpeg(j.st, t, first_spawns, fallback_spawns)

\* queue_cog.MusicQueue.skip (/skip)
cog_skip(C) ==
    IF ~C.registered \/ (~vc_is_playing(C.vc) /\ ~vc_is_paused(C.vc))
    THEN C
    ELSE [C EXCEPT !.qm = get_next_track(C.qm).state,
                   !.vc = vc_stop(C.vc, "skip", C.qm.current_index)]

\* queue_cog.MusicQueue.previous_track (/prev)
cog_previous_track(C) ==
    IF ~C.registered
    THEN C
    ELSE LET r == get_previous_track(C.qm)
         IN  IF r.ret = None
             THEN [C EXCEPT !.qm = r.state]
             ELSE create_stream_player(
                      [C EXCEPT !.qm = r.state,
                                !.vc = vc_stop(C.vc, "stop", 0),
                                !.current_track = r.ret],
                      r.ret)

\* queue_cog.MusicQueue.remove_from_queue without the test that refuses the
\* current index
cog_remove_from_queue_unguarded(C, position) ==
    IF C.qm.queues = <<>>
    THEN [C EXCEPT !.reply = "empty"]
    ELSE LET index == position - 1
             S == remove_from_queue(C.qm, index)
         IN  IF S # C.qm
             THEN [C EXCEPT !.qm = S, !.reply = "removed"]
             ELSE [C EXCEPT !.reply = "invalid"]

\* queue_cog.MusicQueue.remove_from_queue (/remove <position>, 1-based):
\* "The queue is empty!", "Cannot remove the currently playing track",
\* "Removed track: ..." or "Invalid position: ..."
cog_remove_from_queue(C, position) ==
    IF C.qm.queues = <<>>
    THEN [C EXCEPT !.reply = "empty"]
    ELSE LET index == position - 1
             current_idx == C.qm.current_index
             S == remove_from_queue(C.qm, index)
         IN  IF index = current_idx
             THEN [C EXCEPT !.reply = "current"]
             ELSE IF S # C.qm
             THEN [C EXCEPT !.qm = S, !.reply = "removed"]
             ELSE [C EXCEPT !.reply = "invalid"]

\* MusicPlayer.cleanup_for_guild
cleanup_for_guild(C) ==
    [C EXCEPT !.registered = FALSE, !.current_track = None,
              !.progress_loops = 0]

\* player_cog.MusicPlayer.stop (/stop)
cog_stop(C) ==
    IF ~C.registered
    THEN C
    ELSE cleanup_for_guild(
             [C EXCEPT !.vc = vc_stop(C.vc, "stop", 0),
                       !.qm = clear_queue(C.qm)])

\* player_cog.MusicPlayer.leave (/leave); disconnect() stops the source
cog_leave(C) ==
    IF ~C.registered
    THEN C
    ELSE cleanup_for_guild(
             [C EXCEPT !.qm = cancel_inactivity_timer(clear_queue(C.qm)),
                       !.vc = [vc_stop(C.vc, "stop", 0)
                                   EXCEPT !.connected = FALSE]])

\* effects_cog.AudioEffects.apply_effect: the effect is stored, the source is
\* stopped and a new source of the same track is played at once, with an
\* `after` that only prints
cog_apply_effect(C, effect_name) ==
    IF C.current_track = None \/ ~C.registered
    THEN C
    ELSE LET C1 == [C EXCEPT !.effect = effect_name,
                             !.vc = vc_stop(C.vc, "stop", 0)]
         IN  IF vc_can_play(C1.vc)
             THEN [C1 EXCEPT !.vc = vc_play(C1.vc, C.current_track, "print",
                                            C.start_time),
                             !.source_position = C.start_time]
             ELSE C1

\* player_cog.MusicPlayer.seek (/seek <seconds>, relative to the position
\* reached; every track lasts TrackDuration and none is live): the target is
\* clamped to [0, duration], stored, and the source is stopped and played
\* again from the target with an `after` that only prints
cog_seek(C, seconds) ==
    IF ~C.registered \/ C.current_track = None
    THEN C
    ELSE LET current_time == C.start_time
             seek_time == Max(0, Min(current_time + seconds, TrackDuration))
             C1 == [C EXCEPT !.start_time = seek_time,
                             !.vc = vc_stop(C.vc, "seek", 0)]
         IN  IF vc_can_play(C1.vc)
             THEN start_progress_updates(
                      [C1 EXCEPT !.vc = vc_play(C1.vc, C.current_track,
                                                "print", seek_time),
                                 !.source_position = seek_time])
             ELSE C1

\* a step may stop a source only while the model has room for one more
\* pending callback
PendingRoom == Len(after_pending) < MaxPending

CogPlay ==
    /\ Len(queues) < MaxQueue
    /\ \E t \in Tracks : InstallCog(cog_play(Cog, t))
    /\ UNCHANGED auto_playing
    /\ UNCHANGED pvars

\* queue_cog.MusicQueue.shuffle_queue (/shuffle): QueueManager.shuffle_queue
\* and, when it returned True and there is a current track,
\* update_playing_message, which creates a progress task
cog_shuffle_queue(C) ==
    {LET C1 == [C EXCEPT !.qm = S,
                         !.shuffle_result =
                             IF shuffle_queue_returns(C.qm)
                             THEN "true" ELSE "false"]
     IN  IF shuffle_queue_returns(C.qm) /\ get_current_track(S) # None
         THEN start_progress_updates(C1)
         ELSE C1 : S \in shuffle_queue(C.qm)}

CogShuffle ==
    /\ progress_loops < MaxProgressLoops
    /\ \E C \in cog_shuffle_queue(Cog) : InstallCog(C)
    /\ UNCHANGED auto_playing
    /\ UNCHANGED pvars

\* /play, whatever the transcoder does
CogPlayFfmpeg ==
    /\ Len(queues) < MaxQueue
    /\ \E t \in Tracks, first_spawns \in BOOLEAN, fallback_spawns \in BOOLEAN :
          InstallCog(cog_play_ffmpeg(Cog, t, first_spawns, fallback_spawns))
    /\ UNCHANGED auto_playing
    /\ UNCHANGED pvars

CogAdd ==
    /\ Len(queues) + 1 < MaxQueue
    /\ \E t \in Tracks : InstallCog(cog_add_to_queue(Cog, t))
    /\ UNCHANGED auto_playing
    /\ UNCHANGED pvars

CogSkip ==
    /\ PendingRoom
    /\ vc_registered /\ vc_player.track # None
    /\ InstallCog(cog_skip(Cog))
    /\ UNCHANGED auto_playing
    /\ UNCHANGED pvars

CogRemove ==
    /\ \E position \in 0..(MaxQueue + 1) :
          InstallCog(cog_remove_from_queue(Cog, position))
    /\ UNCHANGED auto_playing
    /\ UNCHANGED pvars

CogPrev ==
    /\ PendingRoom
    /\ vc_registered
    /\ InstallCog(cog_previous_track(Cog))
    /\ UNCHANGED auto_playing
    /\ UNCHANGED pvars

CogStop ==
    /\ PendingRoom
    /\ vc_registered
    /\ InstallCog(cog_stop(Cog))
    /\ UNCHANGED auto_playing
    /\ UNCHANGED pvars

CogLeave ==
    /\ PendingRoom
    /\ vc_registered
    /\ InstallCog(cog_leave(Cog))
    /\ UNCHANGED auto_playing
    /\ UNCHANGED pvars

\* player_cog.MusicPlayer.pause (/pause)
CogPause ==
    /\ vc_registered /\ vc_is_playing(VC)
    /\ vc_player' = [vc_player EXCEPT !.paused = TRUE]
    /\ UNCHANGED <<qmvars, vc_connected, after_pending, cogvars>>
    /\ UNCHANGED pvars

\* player_cog.MusicPlayer.resume (/resume)
CogResume ==
    /\ vc_registered /\ vc_is_paused(VC)
    /\ vc_player' = [vc_player EXCEPT !.paused = FALSE]
    /\ UNCHANGED <<qmvars, vc_connected, after_pending, cogvars>>
    /\ UNCHANGED pvars

\* queue_cog.MusicQueue.set_loop_mode (/loop off|track|queue, or toggle)
CogSetLoopMode ==
    /\ \E new_mode \in {0, 1, 2, (loop_mode + 1) % 3} :
          Install(set_loop_mode(QM, new_mode))
    /\ UNCHANGED <<auto_playing, vcvars, cogvars>>
    /\ UNCHANGED pvars

Effects == {"bassboost"}

CogApplyEffect ==
    /\ PendingRoom
    /\ current_track # None /\ vc_registered
    /\ \E e \in Effects : InstallCog(cog_apply_effect(Cog, e))
    /\ UNCHANGED auto_playing
    /\ UNCHANGED pvars

SeekDeltas == (0 - 1)..TrackDuration

CogSeek ==
    /\ PendingRoom
    /\ progress_loops < MaxProgressLoops
    /\ \E seconds \in SeekDeltas : InstallCog(cog_seek(Cog, seconds))
    /\ UNCHANGED auto_playing
    /\ UNCHANGED pvars

\* one second passes for the cog-based player: a playing source reaches the
\* next second of its track, and every start_progress_updates task wakes
\* from its sleep: it adds a second to start_time while the voice client is
\* playing and returns otherwise
CogProgressTick ==
    /\ vc_registered /\ current_track # None
    /\ IF vc_is_playing(VC)
       THEN /\ source_position < TrackDuration
            /\ start_time + progress_loops <= TrackDuration
            /\ source_position' = source_position + 1
            /\ start_time' = start_time + progress_loops
            /\ UNCHANGED progress_loops
       ELSE /\ progress_loops > 0
            /\ progress_loops' = 0
            /\ UNCHANGED <<start_time, source_position>>
    /\ UNCHANGED <<qmvars, auto_playing, vcvars, vc_registered, current_track,
                   current_effect, remove_reply, shuffle_result,
                   track_notified>>
    /\ UNCHANGED pvars

\* the playing source runs out: the audio thread ends and calls `after`
TrackEnds ==
    /\ PendingRoom
    /\ vc_is_playing(VC)
    /\ LET V == vc_stop(VC, "natural", 0)
       IN  /\ vc_player' = V.player
           /\ after_pending' = V.pending
    /\ UNCHANGED <<qmvars, vc_connected, cogvars>>
    /\ UNCHANGED pvars

\* the `after` callback of an ended source runs on the event loop: the one
\* create_stream_player installs calls _call_after_functions, the one seek and
\* apply_effect install only prints
CogAfterFires ==
    /\ \E i \in 1..Len(after_pending) :
          LET e == after_pending[i]
              C == [Cog EXCEPT !.vc.pending = ListPop(after_pending, i - 1)]
          IN  /\ e.hook \in {"after_functions", "print"}
              /\ (AfterCallArgs = HandleTrackFinishedParams /\ ~auto_playing
                      => CanStartTimer)
              /\ InstallCog(IF e.hook = "after_functions"
                            THEN call_after_functions(C, auto_playing,
                                                      e.track)
                            ELSE C)
    /\ UNCHANGED auto_playing
    /\ UNCHANGED pvars

\* the QueueManager operations in any order
NextQM ==
    \/ QM_AddToQueue
    \/ QM_AddMultipleToQueue
    \/ QM_RemoveFromQueue
    \/ QM_ClearQueue
    \/ QM_MoveInQueue
    \/ QM_ShuffleQueue
    \/ QM_GetNextTrack
    \/ QM_GetPreviousTrack
    \/ QM_SetLoopMode
    \/ QM_StartInactivityTimer
    \/ QM_CancelInactivityTimer
    \/ CountdownStarts
    \/ CountdownExpires
    \/ CountdownCancelled

SpecQM == InitQM /\ [][NextQM]_vars

\* the /remove command on every queue and current index that additions,
\* /next, /prev and the loop modes produce
NextRemove ==
    \/ QM_AddToQueue
    \/ QM_GetNextTrack
    \/ QM_GetPreviousTrack
    \/ QM_SetLoopMode
    \/ CogRemove

SpecRemove == InitQM /\ [][NextRemove]_vars

InitCog ==
    /\ queues = <<>>
    /\ qm_known = FALSE
    /\ current_index = 0
    /\ loop_mode = 0
    /\ inactivity_timers = None
    /\ timer_task = [i \in TimerIds |-> "none"]
    /\ auto_playing = FALSE
    /\ vc_connected = FALSE
    /\ vc_player = NoPlayer
    /\ after_pending = <<>>
    /\ vc_registered = FALSE
    /\ current_track = None
    /\ current_effect = "none"
    /\ remove_reply = "none"
    /\ start_time = 0
    /\ progress_loops = 0
    /\ source_position = 0
    /\ shuffle_result = "none"
    /\ track_notified = [start |-> None, end |-> None]
    /\ NoMusicPlayer
    /\ channel_members = 0

\* The countdown steps are not part of this specification: nothing in the
\* cog-based player ever starts a countdown (see call_after_functions).
NextCog ==
    \/ CogPlay
    \/ CogAdd
    \/ CogSkip
    \/ CogRemove
    \/ CogPrev
    \/ CogStop
    \/ CogLeave
    \/ CogPause
    \/ CogResume
    \/ CogSetLoopMode
    \/ CogApplyEffect
    \/ TrackEnds
    \/ CogAfterFires

SpecCog == InitCog /\ [][NextCog]_vars

\* /play and /seek of the cog-based player, with the progress updates
NextSeek ==
    \/ CogPlay
    \/ CogSeek
    \/ CogProgressTick
    \/ CogPause
    \/ CogResume
    \/ TrackEnds
    \/ CogAfterFires

SpecSeek == InitCog /\ [][NextSeek]_vars

\* the cog-based player against the seconds that pass: /play, /pause,
\* /resume, an effect change and the progress tasks
NextTick ==
    \/ CogPlay
    \/ CogPause
    \/ CogResume
    \/ CogApplyEffect
    \/ CogProgressTick
    \/ TrackEnds
    \/ CogAfterFires

SpecTick == InitCog /\ [][NextTick]_vars

\* the cog-based player with a transcoder that may fail to spawn
NextFfmpeg ==
    \/ CogPlayFfmpeg
    \/ CogAdd
    \/ CogSkip
    \/ CogStop
    \/ TrackEnds
    \/ CogAfterFires

SpecFfmpeg == InitCog /\ [][NextFfmpeg]_vars

\* ------------------------------------------------- the queue-based player
\* The queue-based player's state for the guild, as one record.
MP ==
    [task |-> player_task, queue |-> player_queue, next |-> next,
     next_cause |-> next_cause, current |-> current,
     loop_mode |-> player_loop_mode, skip_votes |-> skip_votes,
     seek_offset |-> seek_offset, fetch_url |-> fetch_url,
     playback_start_time |-> playback_start_time, vc |-> VC,
     registered |-> player_registered, destroyed |-> destroyed,
     cleanup_tasks |-> cleanup_tasks, get |-> loop_get,
     np_controls |-> np_controls, play_pending |-> play_pending,
     voice_event |-> voice_event]

InstallMP(P) ==
    /\ player_task' = P.task
    /\ player_queue' = P.queue
    /\ next' = P.next
    /\ next_cause' = P.next_cause
    /\ current' = P.current
    /\ player_loop_mode' = P.loop_mode
    /\ skip_votes' = P.skip_votes
    /\ seek_offset' = P.seek_offset
    /\ fetch_url' = P.fetch_url
    /\ playback_start_time' = P.playback_start_time
    /\ vc_connected' = P.vc.connected
    /\ vc_player' = P.vc.player
    /\ after_pending' = P.vc.pending
    /\ player_registered' = P.registered
    /\ destroyed' = P.destroyed
    /\ cleanup_tasks' = P.cleanup_tasks
    /\ loop_get' = P.get
    /\ np_controls' = P.np_controls
    /\ play_pending' = P.play_pending
    /\ voice_event' = P.voice_event

\* self.next.set(), by the callback of a source that ended for `cause`
next_set(P, cause) == [P EXCEPT !.next = TRUE, !.next_cause = cause]

\* a player_loop that returns when vc.play raises
play_track_stops_on_error(P, next_track) ==
    LET P1 == [P EXCEPT !.current = next_track, !.skip_votes = {}]
    IN  IF vc_can_play(P1.vc)
        THEN [P1 EXCEPT !.vc = vc_play(@, next_track, "next_set", 0),
                        !.playback_start_time = now,
                        !.seek_offset = 0,
                        !.np_controls = TRUE,
                        !.task = "wait"]
        ELSE [P1 EXCEPT !.current = None, !.task = "exited"]

\* player_loop, "Play the track": from self.current = next_track to the await
\* of self.next.wait().  It returns when the voice client is gone; vc.play
\* raising ClientException sets the event itself.
play_track(P, next_track) ==
    LET P1 == [P EXCEPT !.current = next_track, !.skip_votes = {}]
    IN  IF ~P1.vc.connected
        THEN [P1 EXCEPT !.current = None, !.task = "exited"]
        ELSE IF vc_can_play(P1.vc)
             THEN [P1 EXCEPT !.vc = vc_play(@, next_track, "next_set", 0),
                             !.playback_start_time = now,
                             !.seek_offset = 0,
                             !.np_controls = TRUE,
                             !.task = "wait"]
             ELSE [next_set(P1, "error") EXCEPT !.task = "wait"]

\* player_loop, `next_track = await self.queue.get()`: it suspends only on an
\* empty queue, and a suspended get() resumes on the queue object it was
\* called on, whatever self.queue names by then
take_from_queue(P) ==
    IF P.get.on = "old"
    THEN IF P.get.items = <<>>
         THEN P
         ELSE play_track([P EXCEPT !.get = NoGet], Head(P.get.items))
    ELSE IF P.queue = <<>>
    THEN [P EXCEPT !.task = "get", !.get = [on |-> "queue", items |-> <<>>]]
    ELSE play_track([P EXCEPT !.queue = Tail(@), !.get = NoGet],
                    Head(P.queue))

\* player_loop can resume from queue.get(): the queue object it waits on
\* holds a track
get_ready(P) ==
    IF P.get.on = "old" THEN P.get.items # <<>> ELSE P.queue # <<>>

\* self.queue = <another asyncio.Queue holding new_items>: a get() suspended
\* on the object replaced stays suspended on it
replace_queue(P, new_items) ==
    [P EXCEPT !.queue = new_items,
              !.get = IF P.task = "get" /\ @.on = "queue"
                      THEN [on |-> "old", items |-> P.queue]
                      ELSE @]

\* MusicPlayer.clear_queue
player_clear_queue(P) == replace_queue(P, <<>>)

\* MusicPlayer.remove_track(index), index 0-based
remove_track(P, index) ==
    IF 0 <= index /\ index < Len(P.queue)
    THEN replace_queue(P, ListPop(P.queue, index))
    ELSE P

\* MusicPlayer.stop_current
stop_current(P) ==
    IF P.vc.player.track # None
    THEN [P EXCEPT !.vc = vc_stop(@, "stop", 0)]
    ELSE P

\* player_loop, top of an iteration: self.next.clear(), then the song loop
\* re-fetches self.current if there is one, otherwise the queue is read
loop_top(P) ==
    LET P1 == [P EXCEPT !.next = FALSE, !.next_cause = "none"]
    IN  IF P1.loop_mode = "song" /\ P1.current # None
        THEN [P1 EXCEPT !.task = "refetch", !.fetch_url = P1.current]
        ELSE take_from_queue(P1)

\* player_loop, "Reset state for next iteration": the current track is
\* cleared; the now-playing message is edited (an await) when the queue is
\* empty and the queue loop is off
reset_state(P) ==
    LET P1 == [P EXCEPT !.current = None, !.playback_start_time = None,
                        !.seek_offset = 0]
    IN  IF P1.queue = <<>> /\ P1.loop_mode # "queue"
        THEN [P1 EXCEPT !.task = "np_clear"]
        ELSE loop_top(P1)

\* player_loop, "After track finishes or is skipped": the queue loop
\* re-resolves the track that was current
track_finished(P) ==
    IF P.loop_mode = "queue" /\ P.current # None
    THEN [P EXCEPT !.task = "requeue", !.fetch_url = P.current]
    ELSE reset_state(P)

\* MusicPlayer.skip; `by` records who caused the call ("skip": the requester
\* or a moderator, "vote": the vote that reached the threshold, "button": the
\* Skip button of the now-playing message pressed by another listener)
player_skip(P, by) ==
    LET P1 == [P EXCEPT !.skip_votes = {}]
    IN  IF P1.vc.player.track # None
        THEN [P1 EXCEPT !.vc = vc_stop(@, by, 0)]
        ELSE P1

\* the `after` callbacks of the sources a replaced MusicPlayer played set the
\* event of that player, not of the new one
old_hook(hook) == IF hook = "next_set" THEN "old_next_set" ELSE hook

\* MusicPlayer.__init__: an empty queue, no current track, and player_loop
\* started (it suspends in queue.get)
MusicPlayer(P) ==
    [P EXCEPT !.task = "get", !.queue = <<>>, !.next = FALSE,
              !.get = NoGet, !.np_controls = FALSE,
              !.play_pending = IF @ = "resolving" THEN "stale" ELSE @,
              !.next_cause = "none", !.current = None, !.loop_mode = "off",
              !.skip_votes = {}, !.seek_offset = 0, !.fetch_url = None,
              !.playback_start_time = None, !.destroyed = FALSE,
              !.vc.player.hook = old_hook(@),
              !.vc.pending = [i \in DOMAIN @ |->
                                 [@[i] EXCEPT !.hook = old_hook(@)]]]

\* voice_cog.Voice.get_player: the guild's player, created and registered
\* when the registry has none or a destroyed one
get_player(P) ==
    IF ~P.registered \/ P.destroyed
    THEN [MusicPlayer(P) EXCEPT !.registered = TRUE]
    ELSE P

\* voice_cog.Voice.play up to `await YTDLSource.create_source`: connect when
\* the guild has no voice client, then get_player; the command keeps the
\* player it was given
voice_play_begin(P) ==
    LET P1 == [P EXCEPT !.vc.connected = TRUE]
    IN  [get_player(P1) EXCEPT !.play_pending = "resolving"]

\* voice_cog.Voice.play after the resolution: player.add_track on the player
\* the command kept; the queue of a player that was replaced meanwhile is
\* not the guild's any more
voice_play_resolved(P, track) ==
    [P EXCEPT !.queue = IF P.play_pending = "stale" THEN @
                        ELSE Append(@, track),
              !.play_pending = "none"]

\* voice_cog.Voice.play with a single track whose resolution returns before
\* any other handler runs
voice_play(P, track) ==
    LET pending == P.play_pending
    IN  [voice_play_resolved(voice_play_begin(P), track)
            EXCEPT !.play_pending = pending]

\* MusicPlayer.destroy: the loop task is cancelled unless it is done, the
\* queue is replaced by an empty one, a task running the cog's cleanup is
\* created and self.current is cleared; the voice client is not touched
destroy(P) ==
    IF P.destroyed
    THEN P
    ELSE [P EXCEPT !.destroyed = TRUE,
                   !.task = IF @ = "exited" THEN @ ELSE "cancelled",
                   !.fetch_url = None,
                   !.queue = <<>>,
                   !.get = NoGet,
                   !.np_controls = FALSE,
                   !.cleanup_tasks = @ + 1,
                   !.current = None]

\* a cleanup that only disconnects the voice client
cleanup_disconnect_only(P) ==
    IF P.vc.connected
    THEN [P EXCEPT !.vc = [vc_stop(@, "disconnect", 0)
                              EXCEPT !.connected = FALSE]]
    ELSE P

\* voice_cog.Voice.cleanup up to its only await: the player is popped from
\* the registry and destroyed unless it already is, then a connected voice
\* client is disconnected, which stops its source
cleanup(P) ==
    LET P1 == [P EXCEPT !.registered = FALSE]
        P2 == IF P.registered THEN destroy(P1) ELSE P1
    IN  IF P2.vc.connected
        THEN [P2 EXCEPT !.vc = [vc_stop(@, "disconnect", 0)
                                   EXCEPT !.connected = FALSE]]
        ELSE P2

\* voice_cog.Music.skip by a listener who is neither the requester nor a
\* moderator: required = max(1, len(channel_members) // 2 + 1)
required(n) == Max(1, (n \div 2) + 1)

vote_skip(P, voter, n) ==
    IF voter \in P.skip_votes
    THEN P
    ELSE LET P1 == [P EXCEPT !.skip_votes = @ \cup {voter}]
         IN  IF required(n) - Cardinality(P1.skip_votes) <= 0
             THEN player_skip(P1, "vote")
             ELSE P1

\* /play <query>
PlayerPlay ==
    /\ Len(player_queue) < MaxPlayerQueue
    /\ channel_members >= 1
    /\ \E track \in Tracks : InstallMP(voice_play(MP, track))
    /\ UNCHANGED <<qmvars, cogvars, seek_url, seek_seconds, seek_update, now,
                   channel_members>>

\* /play <query>, up to the resolution of the query
PlayerPlayBegin ==
    /\ play_pending = "none"
    /\ channel_members >= 1
    /\ InstallMP(voice_play_begin(MP))
    /\ UNCHANGED <<qmvars, cogvars, seek_url, seek_seconds, seek_update, now,
                   channel_members>>

\* /play <query>, from the resolution of the query on
PlayerPlayResolved ==
    /\ play_pending # "none"
    /\ Len(player_queue) < MaxPlayerQueue
    /\ \E track \in Tracks : InstallMP(voice_play_resolved(MP, track))
    /\ UNCHANGED <<qmvars, cogvars, seek_url, seek_seconds, seek_update, now,
                   channel_members>>

\* /skip by the requester or a moderator
PlayerSkip ==
    /\ PendingRoom
    /\ current # None
    /\ InstallMP(player_skip(MP, "skip"))
    /\ UNCHANGED <<qmvars, cogvars, seek_url, seek_seconds, seek_update, now,
                   channel_members>>

\* /skip by another listener
PlayerVoteSkip ==
    /\ PendingRoom
    /\ current # None
    /\ \E voter \in Listeners :
          InstallMP(vote_skip(MP, voter, channel_members))
    /\ UNCHANGED <<qmvars, cogvars, seek_url, seek_seconds, seek_update, now,
                   channel_members>>

\* ui.PlayerControls.skip: the Skip button of the now-playing message.
\* interaction_check admits every member of the bot's voice channel; the
\* callback only tests player.current before it calls player.skip(), for
\* the requester or a moderator (can_skip_freely) and every other listener
PlayerButtonSkip ==
    /\ PendingRoom
    /\ player_task # "none"
    /\ channel_members >= 1
    /\ current # None
    /\ \E can_skip_freely \in BOOLEAN :
          InstallMP(player_skip(MP, IF can_skip_freely
                                    THEN "skip" ELSE "button"))
    /\ UNCHANGED <<qmvars, cogvars, seek_url, seek_seconds, seek_update, now,
                   channel_members>>

\* members join or leave the voice channel: on_voice_state_update only acts
\* on the bot's own disconnection
MembersChange ==
    /\ \E n \in 0..NumListeners :
          /\ n # channel_members
          /\ channel_members' = n
    /\ UNCHANGED <<qmvars, vcvars, cogvars, player_task, player_queue, next,
                   next_cause, current, player_loop_mode, skip_votes,
                   seek_offset, fetch_url, seek_url, seek_seconds,
                   seek_update, playback_start_time, now,
                   lifevars>>

\* MusicPlayer.shuffle_queue: random.shuffle of the tracks waiting in the
\* queue; the current track is not among them
player_shuffle_queue(P) ==
    IF Len(P.queue) > 1
    THEN {[P EXCEPT !.queue = sh] : sh \in Shuffles(P.queue)}
    ELSE {P}

\* what MusicPlayer.shuffle_queue returns
player_shuffle_queue_returns(P) == Len(P.queue) > 1

\* /shuffle of the queue-based player
PlayerShuffle ==
    /\ player_registered /\ ~destroyed
    /\ \E P \in player_shuffle_queue(MP) : InstallMP(P)
    /\ shuffle_result' = IF player_shuffle_queue_returns(MP)
                         THEN "true" ELSE "false"
    /\ UNCHANGED <<qmvars, vc_registered, current_track, current_effect,
                   remove_reply, start_time, progress_loops, source_position,
                   track_notified, seek_url, seek_seconds, seek_update, now,
                   channel_members>>

\* what update_now_playing_message() leaves on the message: nothing is
\* touched for a destroyed player, the buttons are removed when no track is
\* current and shown otherwise
update_now_playing_message(P) ==
    IF P.destroyed THEN P ELSE [P EXCEPT !.np_controls = (P.current # None)]

\* /clear: refused when the registry has no player or the queue is empty
PlayerClear ==
    /\ player_registered /\ player_queue # <<>>
    /\ InstallMP(update_now_playing_message(player_clear_queue(MP)))
    /\ UNCHANGED <<qmvars, cogvars, seek_url, seek_seconds, seek_update, now,
                   channel_members>>

\* /remove <position>, 1-based: refused when the registry has no player, the
\* queue is empty or the position is not in 1..qsize
PlayerRemove ==
    /\ player_registered
    /\ \E position \in 1..Len(player_queue) :
          InstallMP(update_now_playing_message(remove_track(MP, position - 1)))
    /\ UNCHANGED <<qmvars, cogvars, seek_url, seek_seconds, seek_update, now,
                   channel_members>>

\* the Stop button of the now-playing message, pressed by a member of the
\* bot's voice channel: clear_queue, stop_current when a source is playing or
\* paused, and the buttons are disabled
PlayerStopButton ==
    /\ PendingRoom
    /\ np_controls /\ vc_connected /\ channel_members >= 1
    /\ LET P == player_clear_queue(MP)
           is_playing == vc_is_playing(P.vc) /\ P.current # None
           is_paused == vc_is_paused(P.vc)
       IN  InstallMP([(IF is_playing \/ is_paused THEN stop_current(P) ELSE P)
                         EXCEPT !.np_controls = FALSE])
    /\ UNCHANGED <<qmvars, cogvars, seek_url, seek_seconds, seek_update, now,
                   channel_members>>

\* /loop [mode]
PlayerSetLoop ==
    /\ player_task # "none"
    /\ \E new_mode \in {"off", "song", "queue"} :
          player_loop_mode' = new_mode
    /\ UNCHANGED <<qmvars, vcvars, cogvars, player_task, player_queue, next,
                   next_cause, current, skip_votes, seek_offset, fetch_url,
                   seek_url, seek_seconds, seek_update, playback_start_time,
                   now, channel_members,
                   lifevars>>

\* a pause() that pauses a playing source and resumes a paused one
player_pause_toggle(P) ==
    IF vc_is_playing(P.vc)
    THEN [P EXCEPT !.vc.player.paused = TRUE]
    ELSE IF vc_is_paused(P.vc)
    THEN [P EXCEPT !.vc.player.paused = FALSE]
    ELSE P

\* MusicPlayer.pause: `if vc and vc.is_playing(): vc.pause()`
player_pause(P) ==
    IF vc_is_playing(P.vc)
    THEN [P EXCEPT !.vc.player.paused = TRUE]
    ELSE P

\* MusicPlayer.resume: `if vc and vc.is_paused(): vc.resume()`
player_resume(P) ==
    IF vc_is_paused(P.vc)
    THEN [P EXCEPT !.vc.player.paused = FALSE]
    ELSE P

\* MusicPlayer.get_progress at time `clock`: the position, 0 without a
\* current track, a voice client or a start time; every track lasts
\* TrackDuration
get_progress(P, clock) ==
    IF P.current = None \/ ~P.vc.connected \/ P.playback_start_time = None
    THEN 0
    ELSE LET elapsed_since_start == clock - P.playback_start_time
             current_position == elapsed_since_start + P.seek_offset
         IN  Min(current_position, TrackDuration)

\* MusicPlayer.pause, whatever the voice client is doing
PlayerPause ==
    /\ player_task # "none"
    /\ InstallMP(player_pause(MP))
    /\ UNCHANGED <<qmvars, cogvars, seek_url, seek_seconds, seek_update, now,
                   channel_members>>

\* MusicPlayer.resume
PlayerResume ==
    /\ player_task # "none"
    /\ InstallMP(player_resume(MP))
    /\ UNCHANGED <<qmvars, cogvars, seek_url, seek_seconds, seek_update, now,
                   channel_members>>

\* MusicPlayer.seek up to `await YTDLSource.create_source`: the guards, then
\* vc.stop() and the url of the current track
PlayerSeekBegin ==
    /\ PendingRoom
    /\ seek_url = None /\ seek_update = 0
    /\ current # None /\ vc_connected
    /\ \E seconds \in 1..TrackDuration :
          IF seconds >= TrackDuration
          THEN UNCHANGED <<vcvars, seek_url, seek_seconds>>
          ELSE /\ LET V == vc_stop(VC, "seek", 0)
                  IN  /\ vc_player' = V.player
                      /\ after_pending' = V.pending
               /\ seek_url' = current
               /\ seek_seconds' = seconds
               /\ UNCHANGED vc_connected
    /\ UNCHANGED <<qmvars, cogvars, player_task, player_queue, next,
                   next_cause, current, player_loop_mode, skip_votes,
                   seek_offset, fetch_url, seek_update, playback_start_time,
                   now, channel_members,
                   lifevars>>

\* MusicPlayer.seek after the await of create_source: the new Track becomes
\* current and is played from `seconds`, the start time and the offset are
\* stored and the now-playing message is updated (an await); any exception
\* (create_source failing, vc.play raising ClientException) sets self.next
\* instead and seek returns False
PlayerSeekResolved ==
    /\ seek_url # None
    /\ \E resolved \in BOOLEAN :
          LET P1 == [MP EXCEPT !.current = seek_url]
              played == resolved /\ vc_can_play(P1.vc)
          IN  /\ InstallMP(IF ~resolved
                           THEN next_set(MP, "error")
                           ELSE IF vc_can_play(P1.vc)
                                THEN [P1 EXCEPT
                                        !.vc = vc_play(@, seek_url, "next_set",
                                                       seek_seconds),
                                        !.playback_start_time = now,
                                        !.seek_offset = seek_seconds]
                                ELSE next_set(P1, "error"))
              /\ seek_update' = IF played THEN seek_seconds ELSE 0
    /\ seek_url' = None
    /\ seek_seconds' = 0
    /\ UNCHANGED <<qmvars, cogvars, now, channel_members>>

\* MusicPlayer.seek, after the await of update_now_playing_message: it
\* returns True
PlayerSeekReturns ==
    /\ seek_update # 0
    /\ seek_update' = 0
    /\ UNCHANGED <<qmvars, vcvars, cogvars, player_task, player_queue, next,
                   next_cause, current, player_loop_mode, skip_votes,
                   seek_offset, fetch_url, seek_url, seek_seconds,
                   playback_start_time, now, channel_members,
                   lifevars>>

\* one second passes; the awaits of a seek in flight take less
Tick ==
    /\ now < MaxTime
    /\ seek_url = None /\ seek_update = 0
    /\ now' = now + 1
    /\ UNCHANGED <<qmvars, vcvars, cogvars, player_task, player_queue, next,
                   next_cause, current, player_loop_mode, skip_votes,
                   seek_offset, fetch_url, seek_url, seek_seconds,
                   seek_update, playback_start_time, channel_members,
                   lifevars>>

\* the `after` callback player_loop and seek install runs: self.next.set()
PlayerAfterFires ==
    /\ \E i \in 1..Len(after_pending) :
          LET e == after_pending[i]
              P == [MP EXCEPT !.vc.pending = ListPop(after_pending, i - 1)]
          IN  /\ e.hook \in {"next_set", "old_next_set"}
              /\ InstallMP(IF e.hook = "next_set"
                           THEN next_set(P, e.cause)
                           ELSE P)
    /\ UNCHANGED <<qmvars, cogvars, seek_url, seek_seconds, seek_update, now,
                   channel_members>>

\* player_loop resumes from queue.get()
PlayerLoopGet ==
    /\ player_task = "get" /\ get_ready(MP)
    /\ InstallMP(take_from_queue(MP))
    /\ UNCHANGED <<qmvars, cogvars, seek_url, seek_seconds, seek_update, now,
                   channel_members>>

\* player_loop resumes from self.next.wait()
PlayerLoopFinish ==
    /\ player_task = "wait" /\ next
    /\ InstallMP(track_finished(MP))
    /\ UNCHANGED <<qmvars, cogvars, seek_url, seek_seconds, seek_update, now,
                   channel_members>>

\* player_loop resumes from re-resolving the finished track for the queue
\* loop: the copy is put at the tail, or the failure is only reported
PlayerLoopRequeue ==
    /\ player_task = "requeue"
    /\ \E resolved \in BOOLEAN :
          /\ resolved => Len(player_queue) < MaxPlayerQueue
          /\ InstallMP(reset_state(
                 [MP EXCEPT !.queue = IF resolved THEN Append(@, fetch_url)
                                      ELSE @,
                            !.fetch_url = None]))
    /\ UNCHANGED <<qmvars, cogvars, seek_url, seek_seconds, seek_update, now,
                   channel_members>>

\* player_loop resumes from update_now_playing_message(clear_view=True)
PlayerLoopNpCleared ==
    /\ player_task = "np_clear"
    /\ InstallMP(loop_top([MP EXCEPT !.np_controls = FALSE]))
    /\ UNCHANGED <<qmvars, cogvars, seek_url, seek_seconds, seek_update, now,
                   channel_members>>

\* player_loop resumes from re-resolving self.current for the song loop: the
\* copy is played, or the song loop is switched off and the queue is read
PlayerLoopRefetch ==
    /\ player_task = "refetch"
    /\ \E resolved \in BOOLEAN :
          LET P == [MP EXCEPT !.fetch_url = None]
          IN  InstallMP(IF resolved
                        THEN play_track(P, fetch_url)
                        ELSE take_from_queue([P EXCEPT !.loop_mode = "off"]))
    /\ UNCHANGED <<qmvars, cogvars, seek_url, seek_seconds, seek_update, now,
                   channel_members>>

CleanupRoom == cleanup_tasks < MaxCleanupTasks

\* /leave: refused when the bot is not connected, otherwise cleanup
PlayerLeave ==
    /\ PendingRoom /\ CleanupRoom
    /\ vc_connected
    /\ InstallMP(cleanup(MP))
    /\ UNCHANGED <<qmvars, cogvars, seek_url, seek_seconds, seek_update, now,
                   channel_members>>

\* /stop: refused when the registry has no player, otherwise player.destroy()
PlayerStop ==
    /\ CleanupRoom
    /\ player_registered /\ ~destroyed
    /\ InstallMP(destroy(MP))
    /\ UNCHANGED <<qmvars, cogvars, seek_url, seek_seconds, seek_update, now,
                   channel_members>>

\* a CogCleanup task destroy() created runs the cog's cleanup
CogCleanupRuns ==
    /\ PendingRoom
    /\ cleanup_tasks > 0
    /\ InstallMP(cleanup([MP EXCEPT !.cleanup_tasks = @ - 1]))
    /\ UNCHANGED <<qmvars, cogvars, seek_url, seek_seconds, seek_update, now,
                   channel_members>>

\* the bot loses its voice connection (it is kicked or moved out): the
\* voice client stops its source and is no longer connected, and the
\* gateway reports the bot's voice state
VoiceLost ==
    /\ PendingRoom
    /\ vc_connected /\ ~voice_event
    /\ InstallMP([MP EXCEPT !.vc = [vc_stop(@, "disconnect", 0)
                                      EXCEPT !.connected = FALSE],
                            !.voice_event = TRUE])
    /\ UNCHANGED <<qmvars, cogvars, seek_url, seek_seconds, seek_update, now,
                   channel_members>>

\* voice_cog.Voice.on_voice_state_update for the bot itself, its channel
\* having become None: cleanup
OnVoiceStateUpdate ==
    /\ PendingRoom /\ CleanupRoom
    /\ voice_event
    /\ InstallMP(cleanup([MP EXCEPT !.voice_event = FALSE]))
    /\ UNCHANGED <<qmvars, cogvars, seek_url, seek_seconds, seek_update, now,
                   channel_members>>

\* no player yet; every listener of the model is in the voice channel
InitPlayer ==
    /\ queues = <<>>
    /\ qm_known = FALSE
    /\ current_index = 0
    /\ loop_mode = 0
    /\ inactivity_timers = None
    /\ timer_task = [i \in TimerIds |-> "none"]
    /\ auto_playing = FALSE
    /\ vc_connected = FALSE
    /\ vc_player = NoPlayer
    /\ after_pending = <<>>
    /\ vc_registered = FALSE
    /\ current_track = None
    /\ current_effect = "none"
    /\ remove_reply = "none"
    /\ start_time = 0
    /\ progress_loops = 0
    /\ source_position = 0
    /\ shuffle_result = "none"
    /\ track_notified = [start |-> None, end |-> None]
    /\ NoMusicPlayer
    /\ channel_members = NumListeners

NextPlayer ==
    \/ PlayerPlay
    \/ PlayerSkip
    \/ PlayerVoteSkip
    \/ PlayerSetLoop
    \/ PlayerPause
    \/ PlayerResume
    \/ PlayerSeekBegin
    \/ PlayerSeekResolved
    \/ PlayerSeekReturns
    \/ TrackEnds
    \/ PlayerAfterFires
    \/ PlayerLoopGet
    \/ PlayerLoopFinish
    \/ PlayerLoopRequeue
    \/ PlayerLoopNpCleared
    \/ PlayerLoopRefetch

SpecPlayer == InitPlayer /\ [][NextPlayer]_vars

\* skipping in the queue-based player: the command, the votes and the Skip
\* button, while members join and leave the voice channel
NextVote ==
    \/ MembersChange
    \/ PlayerPlay
    \/ PlayerSkip
    \/ PlayerVoteSkip
    \/ PlayerButtonSkip
    \/ TrackEnds
    \/ PlayerAfterFires
    \/ PlayerLoopGet
    \/ PlayerLoopFinish
    \/ PlayerLoopNpCleared

SpecVote == InitPlayer /\ [][NextVote]_vars

\* playback, pause, resume and seek of the queue-based player against the
\* clock get_progress reads
NextProgress ==
    \/ PlayerPlay
    \/ PlayerPause
    \/ PlayerResume
    \/ PlayerSeekBegin
    \/ PlayerSeekResolved
    \/ PlayerSeekReturns
    \/ Tick
    \/ TrackEnds
    \/ PlayerAfterFires
    \/ PlayerLoopGet
    \/ PlayerLoopFinish
    \/ PlayerLoopNpCleared

SpecProgress == InitPlayer /\ [][NextProgress]_vars

\* playback, pause and resume of the queue-based player against the clock
NextPause ==
    \/ PlayerPlay
    \/ PlayerPause
    \/ PlayerResume
    \/ Tick
    \/ TrackEnds
    \/ PlayerAfterFires
    \/ PlayerLoopGet
    \/ PlayerLoopFinish
    \/ PlayerLoopNpCleared

SpecPause == InitPlayer /\ [][NextPause]_vars

\* shuffling: the QueueManager's list with its current index, and the queue
\* of the queue-based player
NextShuffle ==
    \/ QM_AddToQueue
    \/ QM_GetNextTrack
    \/ CogShuffle
    \/ PlayerPlay
    \/ PlayerShuffle

SpecShuffle == InitPlayer /\ [][NextShuffle]_vars

\* the queue of the queue-based player under every command and button that
\* edits it, with the loop that reads it
NextQueue ==
    \/ PlayerPlay
    \/ PlayerSetLoop
    \/ PlayerClear
    \/ PlayerRemove
    \/ PlayerShuffle
    \/ PlayerStopButton
    \/ TrackEnds
    \/ PlayerAfterFires
    \/ PlayerLoopGet
    \/ PlayerLoopFinish
    \/ PlayerLoopRequeue
    \/ PlayerLoopNpCleared

SpecQueue == InitPlayer /\ [][NextQueue]_vars

\* the same with the scheduling asyncio gives: a task that can resume does,
\* a callback handed to the event loop runs, and a playing source runs out
SpecQueueFair ==
    /\ SpecQueue
    /\ WF_vars(TrackEnds)
    /\ WF_vars(PlayerAfterFires)
    /\ WF_vars(PlayerLoopGet)
    /\ WF_vars(PlayerLoopFinish)
    /\ WF_vars(PlayerLoopRequeue)
    /\ WF_vars(PlayerLoopNpCleared)

\* the life of the queue-based player: created by /play, torn down by
\* /leave, /stop or the loss of the voice connection
NextLife ==
    \/ PlayerPlay
    \/ PlayerSkip
    \/ TrackEnds
    \/ PlayerAfterFires
    \/ PlayerLoopGet
    \/ PlayerLoopFinish
    \/ PlayerLoopNpCleared
    \/ PlayerLeave
    \/ PlayerStop
    \/ CogCleanupRuns
    \/ VoiceLost
    \/ OnVoiceStateUpdate

SpecLife == InitPlayer /\ [][NextLife]_vars

\* /play with its track resolution in flight against /stop, /leave and the
\* cleanup tasks
NextResolve ==
    \/ PlayerPlayBegin
    \/ PlayerPlayResolved
    \/ TrackEnds
    \/ PlayerAfterFires
    \/ PlayerLoopGet
    \/ PlayerLoopFinish
    \/ PlayerLoopNpCleared
    \/ PlayerLeave
    \/ PlayerStop
    \/ CogCleanupRuns

SpecResolve == InitPlayer /\ [][NextResolve]_vars

\* the same with the loop modes, the queue loop re-resolving the finished
\* track, which can fail, and without /skip
NextLoop ==
    \/ PlayerPlay
    \/ PlayerSetLoop
    \/ TrackEnds
    \/ PlayerAfterFires
    \/ PlayerLoopGet
    \/ PlayerLoopFinish
    \/ PlayerLoopRequeue
    \/ PlayerLoopNpCleared
    \/ PlayerLeave
    \/ PlayerStop
    \/ CogCleanupRuns
    \/ VoiceLost
    \/ OnVoiceStateUpdate

SpecLoop == InitPlayer /\ [][NextLoop]_vars

\* ------------------------------------------------------------- claims

\* C1: after any sequence of QueueManager operations on a guild,
\* 0 <= current_index < len(queue) whenever the guild's queue is non-empty.
C1_IndexInRange ==
    queues # <<>> => (0 <= current_index /\ current_index < Len(queues))

\* C1 witness: a queue of several tracks whose current index was moved off 0
\* by get_next_track and then shifted by an edit.
C1_Witness ==
    /\ Len(queues) >= 3
    /\ current_index = Len(queues) - 1
    /\ loop_mode = 2

\* C2: at most one audio source plays into the voice connection, and when the
\* active track, seek position or effect is swapped the new source is started
\* only after the previous source was observed to stop: no source is playing
\* while a source that was stopped still waits for its after-callback.
C2_NewSourceAfterObservedStop ==
    ~(/\ vc_player.track # None
      /\ \E i \in 1..Len(after_pending) : after_pending[i].cause # "natural")

\* the step in which the after-callback of pending source i runs
AfterRuns(i) == after_pending' = ListPop(after_pending, i - 1)

\* the cog-based player is connected and idle: no other command took over
CogIdle == vc_registered /\ vc_connected /\ vc_player.track = None

\* C4: with A playing, B next and loop off, a forced skip ends A and starts
\* exactly B: when the skipped source's after-callback has run, the current
\* index is A's index plus one and the source playing is the track that
\* followed A.
C4_ForcedSkipStartsNext ==
    [][\A i \in 1..Len(after_pending) :
          LET e == after_pending[i]
          IN  (/\ AfterRuns(i)
               /\ e.cause = "skip" /\ e.hook = "after_functions"
               /\ loop_mode = 0 /\ CogIdle
               /\ e.idx + 1 < Len(queues))
              => (/\ current_index' = e.idx + 1
                  /\ vc_player'.track = queues[e.idx + 2]
                  /\ ~vc_player'.paused)]_vars

\* C5: from an empty queue with nothing playing, adding one track A leaves the
\* queue with exactly one entry, A, and A playing.
C5_FirstAddEnqueuesOnce ==
    [][\A t \in Tracks :
          (/\ queues = <<>> /\ vc_player.track = None
           /\ InstallCog(cog_add_to_queue(Cog, t)))
          => (queues' = <<t>> /\ vc_player'.track = t)]_vars

\* C6: when a track ends naturally with loop off and a next track is queued,
\* the finish handling advances the current index by exactly one and starts
\* that next track.
C6_NaturalEndStartsNext ==
    [][\A i \in 1..Len(after_pending) :
          LET e == after_pending[i]
          IN  (/\ AfterRuns(i)
               /\ e.cause = "natural" /\ e.hook = "after_functions"
               /\ loop_mode = 0 /\ CogIdle /\ current_track = e.track
               /\ current_index + 1 < Len(queues))
              => (/\ current_index' = current_index + 1
                  /\ vc_player'.track = queues[current_index + 2]
                  /\ ~vc_player'.paused)]_vars

\* C9: with loop off, when the last track of the queue finishes, no track is
\* started and an inactivity countdown is running for the guild.
C9_LastTrackStartsCountdown ==
    [][\A i \in 1..Len(after_pending) :
          LET e == after_pending[i]
          IN  (/\ AfterRuns(i)
               /\ e.cause = "natural" /\ e.hook = "after_functions"
               /\ loop_mode = 0 /\ CogIdle /\ current_track = e.track
               /\ queues # <<>> /\ current_index + 1 >= Len(queues))
              => (/\ vc_player'.track = None
                  /\ inactivity_timers' # None)]_vars

\* the queue has been played to its end: loop off, the index on the last
\* track, nothing playing and no callback outstanding
Exhausted ==
    /\ qm_known /\ queues # <<>> /\ current_index = Len(queues) - 1
    /\ loop_mode = 0 /\ CogIdle /\ after_pending = <<>>

\* C10: if the queue has been exhausted and a track is then added, that track
\* starts playing and no inactivity countdown stays registered.
C10_AddAfterExhaustionPlays ==
    [][\A t \in Tracks :
          (Exhausted /\ InstallCog(cog_add_to_queue(Cog, t)))
          => (/\ vc_player'.track = t /\ ~vc_player'.paused
              /\ inactivity_timers' = None)]_vars


\* C3: in the queue-based player a seek(t) with 0 <= t < duration keeps the
\* same track current: while the seek is in flight the track it seeks in is
\* still current and the player loop is still waiting for that track to end
\* (it has not run the track-finish path, cleared the current track or taken
\* another track from the queue).
C3_SeekKeepsCurrent ==
    seek_url # None => (current = seek_url /\ player_task = "wait")

\* C7: with loop mode single (song), after the current track finishes
\* naturally the same track stays current and the player loop goes on to
\* restart it: it re-resolves that track and consumes nothing from the queue.
C7_SingleLoopRestarts ==
    [][(/\ PlayerLoopFinish
        /\ player_loop_mode = "song" /\ next_cause = "natural"
        /\ current # None /\ seek_url = None)
       => (/\ current' = current
           /\ player_task' = "refetch"
           /\ fetch_url' = current
           /\ player_queue' = player_queue)]_vars

\* C8: with loop mode all (queue), when a track finishes the finish handling
\* loses no track of the queue and starts the track after the finished one
\* (wrapping to the first after the last).
C8_LoopAllKeepsTracks ==
    [][\A i \in 1..Len(after_pending) :
          LET e == after_pending[i]
          IN  (/\ AfterRuns(i)
               /\ e.cause = "natural" /\ e.hook = "after_functions"
               /\ loop_mode = 2 /\ CogIdle /\ current_track = e.track
               /\ queues # <<>>)
              => (/\ queues' = queues
                  /\ current_index' = (current_index + 1) % Len(queues)
                  /\ vc_player'.track = queues[current_index' + 1]
                  /\ ~vc_player'.paused)]_vars

\* the threshold the specification states: max(1, ceil(n / 2))
CeilHalf(n) == Max(1, (n + 1) \div 2)

\* a /skip vote of listener v is processed in this step
VoteStep(v) ==
    /\ current # None
    /\ v \notin skip_votes
    /\ InstallMP(vote_skip(MP, v, channel_members))

\* C11: the number of votes required to skip is max(1, ceil(n / 2)) for
\* every number n of non-bot listeners in the voice channel: a new vote
\* triggers the skip exactly when the votes cast, this one included, reach
\* that number
C11_VotesRequiredIsCeilHalf ==
    [][\A v \in Listeners :
          VoteStep(v) =>
             ((skip_votes' = {}) <=>
              (Cardinality(skip_votes) + 1 >= CeilHalf(channel_members)))]_vars

\* a listener who is neither the requester nor a moderator stops the
\* playing source in this step with the Skip button
ButtonStops ==
    /\ Len(after_pending') = Len(after_pending) + 1
    /\ after_pending'[Len(after_pending')].cause = "button"

\* C12: the current track is skipped by a user action only if that user is
\* the requester or a privileged caller, or the distinct voters have reached
\* the required threshold: another listener's action stops the track only
\* when the votes cast, that listener counted, reach the threshold
C12_NoSkipAloneBelowThreshold ==
    [][ButtonStops =>
          Cardinality(skip_votes) + 1 >= CeilHalf(channel_members)]_vars

\* C13: in the queue-based player the skip-vote set is empty whenever a
\* track becomes current, so votes cast for one track are never counted
\* toward skipping a different track: when another track replaces the
\* current one, no vote is left
C13_VotesClearedOnTrackChange ==
    [][(current # None /\ current' # None /\ current' # current)
          => skip_votes' = {}]_vars

\* /remove <position> is processed in this step
RemoveStep(position) == InstallCog(cog_remove_from_queue(Cog, position))

\* C14: removing the track at the current index is rejected and leaves the
\* queue and the current index unchanged; removing any other valid index
\* removes exactly that track and the queue length decreases by one
C14_RemoveCurrentRejected ==
    [][\A position \in 0..(MaxQueue + 1) :
          (queues # <<>> /\ RemoveStep(position)) =>
             IF position - 1 = current_index
             THEN /\ queues' = queues
                  /\ current_index' = current_index
                  /\ remove_reply' = "current"
             ELSE IF position \in 1..Len(queues)
             THEN /\ Len(queues') = Len(queues) - 1
                  /\ \A i \in 1..Len(queues') :
                        queues'[i] = queues[IF i < position THEN i ELSE i + 1]
                  /\ remove_reply' = "removed"
             ELSE /\ queues' = queues
                  /\ remove_reply' = "invalid"]_vars

\* C14 witness: a /remove of the current index was refused while the queue
\* held other tracks and the index had moved off the first track
C14_Witness ==
    /\ remove_reply = "current"
    /\ Len(queues) >= 2
    /\ current_index >= 1

\* C15: a seek is accepted only when the target t satisfies
\* 0 <= t < duration; a seek with t out of range is rejected and changes
\* nothing: the current track, the position stored for it, and the playing
\* source are as before
C15_OutOfRangeSeekChangesNothing ==
    [][\A seconds \in SeekDeltas :
          (/\ vc_registered /\ current_track # None
           /\ (start_time + seconds < 0
                  \/ start_time + seconds >= TrackDuration)
           /\ InstallCog(cog_seek(Cog, seconds)))
          => (/\ current_track' = current_track
              /\ start_time' = start_time
              /\ vc_player' = vc_player
              /\ after_pending' = after_pending)]_vars

Abs(x) == IF x < 0 THEN 0 - x ELSE x

\* C16: after a successful seek(t), a progress read taken immediately
\* afterwards returns a position within 1 second of t
C16_SeekThenProgress ==
    [][PlayerSeekReturns =>
          Abs(get_progress(MP', now') - seek_update) <= 1]_vars

\* C17: while the player is paused the position reported by get_progress
\* does not advance
C17_PausedProgressFrozen ==
    [][(vc_is_paused(VC) /\ Tick) =>
          get_progress(MP', now') = get_progress(MP, now)]_vars

\* C18: pause() is idempotent: a second pause() leaves the player in the
\* state of a single pause(), and the position reported after resuming, at
\* any later time, is the same
C18_PauseIdempotent ==
    LET once == player_pause(MP)
        twice == player_pause(once)
    IN  /\ twice = once
        /\ vc_is_playing(VC) => vc_is_paused(twice.vc)
        /\ \A d \in 0..MaxTime :
              get_progress(player_resume(twice), now + d)
                  = get_progress(player_resume(once), now + d)

\* C18 witness: pause() has paused a source that had played for some time,
\* so a second pause() meets a paused player
C18_Witness ==
    /\ vc_is_paused(VC)
    /\ current # None
    /\ playback_start_time # None
    /\ now > playback_start_time

\* an _inactivity_countdown task that has not finished and was not cancelled
PendingCountdown(id) == timer_task[id] \in {"created", "sleeping"}

\* C19: after a track is added to the guild's queue no inactivity countdown
\* for the guild remains pending, whatever start_inactivity_timer,
\* cancel_inactivity_timer and add_to_queue calls came before
C19_AddCancelsCountdown ==
    [][QM_AddToQueue => \A id \in TimerIds : ~PendingCountdown(id)']_vars

\* C20: when the inactivity countdown expires the guild is torn down: the
\* voice connection is disconnected and the guild's queue, current index,
\* current track and voice-client entry are removed from the registries
C20_ExpiryTearsDown ==
    [][CountdownExpires =>
          /\ ~vc_connected'
          /\ queues' = <<>> /\ ~qm_known'
          /\ current_track' = None
          /\ ~vc_registered']_vars

\* C21: after /leave completes the guild's engine state is gone: the queue
\* is empty and the guild has no current track and no voice-client entry
C21_LeaveDestroysState ==
    [][CogLeave =>
          /\ queues' = <<>>
          /\ current_track' = None
          /\ ~vc_registered']_vars

\* C22: handling the loss of the bot's voice connection leaves the guild's
\* player destroyed and out of the registry, its loop task not running, its
\* queue empty and the voice client disconnected; a registered, non-destroyed
\* player whose loop has exited exists only while that handling is still to
\* come
C22_VoiceLossTearsDown ==
    /\ [][OnVoiceStateUpdate =>
             /\ ~player_registered' /\ destroyed'
             /\ player_task' \in {"cancelled", "exited"}
             /\ player_queue' = <<>> /\ current' = None
             /\ ~vc_connected' /\ ~vc_is_playing(VC)']_vars
    /\ [][(player_registered /\ ~destroyed /\ player_task = "exited"
             => voice_event)']_vars

\* C22 witness: the loop found the voice client disconnected and returned,
\* and the voice-state update has been handled since
C22_Witness ==
    /\ player_task = "exited" /\ ~voice_event
    /\ destroyed /\ ~player_registered /\ ~vc_connected

\* player_loop is suspended at one of its awaits
LoopRunning(task) ==
    task \in {"get", "wait", "refetch", "requeue", "np_clear"}

C24_SpawnFailureNotStuck ==
    [][\A t \in Tracks :
          (/\ ~vc_is_playing(VC)
           /\ InstallCog(cog_play_ffmpeg(Cog, t, FALSE, FALSE)))
          => (vc_is_playing(VC)' \/ inactivity_timers' # None)]_vars

\* C25: changing the effect of a playing track restarts the same track at
\* the position it had reached: the new source plays the current track from
\* the position of the source it replaces, the current track and the tracked
\* position are as before, and the queue does not advance
C25_EffectKeepsTrackAndPosition ==
    [][CogApplyEffect /\ vc_is_playing(VC) /\ vc_player.track = current_track
       => (/\ current_track' = current_track
           /\ vc_player'.track = current_track
           /\ vc_player'.seek = source_position
           /\ start_time' = start_time
           /\ queues' = queues /\ current_index' = current_index)]_vars

\* C27: every second that passes while the guild's track is playing adds
\* exactly one second to the tracked position, also after a resume, and a
\* second that passes while playback is paused or stopped adds none
C27_OneTickPerPlayingSecond ==
    [][CogProgressTick =>
          start_time' = start_time + (IF vc_is_playing(VC) THEN 1 ELSE 0)]_vars

\* how often track t occurs in the sequence q
Count(q, t) == Cardinality({i \in 1..Len(q) : q[i] = t})

\* the sequences hold the same tracks, each as often
SameTracks(q1, q2) == \A t \in Tracks : Count(q1, t) = Count(q2, t)

\* C26: shuffle_queue keeps the current track current and permutes the other
\* entries only: the track at the current index is the same before and
\* after, the queue holds the same tracks as often as before, and with fewer
\* than two entries it returns false and changes nothing; the queue-based
\* player's shuffle likewise permutes the waiting tracks and leaves the
\* current track and its source alone
C26_ShuffleKeepsCurrent ==
    /\ [][(/\ shuffle_result' # "none" /\ Len(queues') = Len(queues)
           /\ player_queue' = player_queue /\ current' = current
           /\ CogShuffle) =>
             /\ SameTracks(queues, queues')
             /\ (current_index < Len(queues) =>
                    /\ current_index' < Len(queues')
                    /\ queues'[current_index' + 1] = queues[current_index + 1])
             /\ (Len(queues) < 2 => queues' = queues
                                    /\ current_index' = current_index)
             /\ (shuffle_result' = "false" <=> Len(queues) < 2)]_vars
    /\ [][(/\ shuffle_result' # "none" /\ queues' = queues
           /\ current_index' = current_index
           /\ Len(player_queue') = Len(player_queue)
           /\ PlayerShuffle) =>
             /\ SameTracks(player_queue, player_queue')
             /\ current' = current /\ vc_player' = vc_player
             /\ (Len(player_queue) < 2 => player_queue' = player_queue)
             /\ (shuffle_result' = "false" <=> Len(player_queue) < 2)]_vars

\* C26 witness: the last shuffle_queue call returned true, and the
\* QueueManager's current track is the head of a queue of three entries,
\* followed by two different tracks that the shuffle could exchange
C26_Witness ==
    /\ shuffle_result = "true"
    /\ Len(queues) = 3 /\ current_index = 0
    /\ queues[1] # queues[2] /\ queues[2] # queues[3]

\* C30: teardown stops the playing source first, cancels the player-loop task
\* next and removes the guild's player from the registry last: a destroyed
\* player has no source playing, a cancelled loop task has none either, and a
\* player that left the registry by teardown has its loop task stopped
C30_TeardownOrder ==
    /\ destroyed => ~vc_is_playing(VC)
    /\ player_task = "cancelled" => ~vc_is_playing(VC)
    /\ destroyed /\ ~player_registered =>
          player_task \in {"cancelled", "exited"}

\* the signals that will wake the queue-based player's loop from next.wait():
\* the source it plays, callbacks of ended sources still to run, and the event
\* already set
WakeSignals ==
    Cardinality({i \in 1..Len(after_pending) :
                    after_pending[i].hook = "next_set"})
    + (IF next THEN 1 ELSE 0)
    + (IF vc_player.track # None /\ vc_player.hook = "next_set" THEN 1 ELSE 0)

\* C28: a track that ends, by running out, by a skip or by both at once, is
\* followed by exactly one advance.  Queue-based player: the loop waiting for
\* the end of a track is woken by exactly one signal, and it takes exactly the
\* head of the queue and starts it.  Cog-based player: when the after-callback
\* of the ended source has run, with loop off and a track behind the ended
\* one, that track and no other is playing
C28_OneAdvancePerEnd ==
    /\ [][(player_task = "wait" => WakeSignals = 1)']_vars
    /\ [][player_task = "get" /\ player_task' = "wait" /\ vc_connected =>
             /\ player_queue = <<current'>> \o player_queue'
             /\ vc_player'.track = current']_vars
    /\ [][\A i \in 1..Len(after_pending) :
             LET e == after_pending[i]
                 ended == IF e.cause = "skip" THEN e.idx ELSE current_index
             IN  (/\ AfterRuns(i)
                  /\ e.cause \in {"natural", "skip"}
                  /\ e.hook = "after_functions"
                  /\ Len(after_pending) = 1
                  /\ loop_mode = 0 /\ CogIdle
                  /\ ended + 1 < Len(queues))
                 => (/\ current_index' = ended + 1
                     /\ vc_player'.track = queues[ended + 2]
                     /\ ~vc_player'.paused)]_vars

\* C29: the track-start and track-end notifications of the guild alternate,
\* and no track-finished event is lost or handled twice: when the
\* after-callback of an ended source has run, the end of that track is the
\* end last notified; an end is notified only in such a step; and a start is
\* notified only for the track now playing, after the end of the track whose
\* start was notified before
C29_StartEndAlternate ==
    /\ [][\A i \in 1..Len(after_pending) :
             (AfterRuns(i) /\ after_pending[i].hook = "after_functions")
                => track_notified'.end = after_pending[i].track]_vars
    /\ [][track_notified'.end # track_notified.end =>
             \E i \in 1..Len(after_pending) :
                /\ AfterRuns(i)
                /\ track_notified'.end = after_pending[i].track]_vars
    /\ [][track_notified'.start # track_notified.start =>
             /\ vc_player'.track = track_notified'.start
             /\ track_notified.start \in {None, track_notified'.end}]_vars

\* C31: an edit of the queue never changes which track is current: when
\* add_to_queue, add_multiple_to_queue, remove_from_queue of another index,
\* move_in_queue, shuffle_queue or clear_queue changes the list while a
\* track is current, the track at current_index afterwards is the track that
\* was at current_index before
C31_EditsKeepCurrent ==
    [][(/\ queues' # queues
        /\ get_current_track(QM) # None
        /\ queues' # ListPop(queues, current_index))
          => get_current_track(QM)' = get_current_track(QM)]_vars

\* C31 witness: a current track in the middle of the queue, different from
\* both its neighbours, so that an index left unadjusted by an edit before or
\* behind it would name another track
C31_Witness ==
    /\ Len(queues) = 3 /\ current_index = 1
    /\ queues[1] # queues[2] /\ queues[3] # queues[2]
    /\ loop_mode = 0

\* C32: in the cog-based player, whenever a source is playing, the track
\* recorded in current_track is the track at current_index of the queue
C32_PlayingIsCurrent ==
    vc_is_playing(VC) => current_track = get_current_track(QM)

\* C33: in the cog-based player every source, the one a seek or an effect
\* change re-spawned included, carries the after-callback that runs the
\* track-finish handling, so its end is handled like the end of a source
\* started by play; and the callback of the source a seek stopped starts no
\* track and moves no index
C33_RespawnKeepsFinishHandling ==
    /\ [][vc_player'.track # None =>
             vc_player'.hook = "after_functions"]_vars
    /\ [][\A i \in 1..Len(after_pending) :
             (AfterRuns(i) /\ after_pending[i].cause = "seek")
                => UNCHANGED <<queues, current_index, vc_player,
                               current_track, inactivity_timers>>]_vars

\* C34: in the queue-based player a track add_track accepted is dequeued by
\* the loop: a loop waiting in queue.get() while self.queue holds a track
\* leaves the wait, unless the player is destroyed or the queue emptied
\* meanwhile; it never stays blocked on a queue object add_track no longer
\* writes to
C34_AcceptedTrackIsDequeued ==
    (player_task = "get" /\ player_queue # <<>> /\ ~destroyed)
        ~> (player_task # "get" \/ destroyed \/ player_queue = <<>>)

\* C35: no track is enqueued into a player that is destroyed or out of the
\* registry: the queue of such a player is empty
C35_NoTrackOnDeadPlayer ==
    (destroyed \/ ~player_registered) => player_queue = <<>>

\* C36: the destroy/cleanup chain ends with the destroyed player out of the
\* registry and never removes a newer player of the guild: a cleanup task
\* that destroy() scheduled, running while the registry holds a player that
\* is not destroyed, leaves that player registered and alive
C36_CleanupSparesNewerPlayer ==
    [][(/\ cleanup_tasks > 0
        /\ player_registered /\ ~destroyed
        /\ CogCleanupRuns)
          => (player_registered' /\ ~destroyed')]_vars

\* C37: in the cog-based player the voice-client registry matches the
\* connection: the guild has an entry in voice_clients exactly when the bot
\* holds a voice connection in the guild
C37_RegistryMatchesConnection == vc_registered <=> vc_connected

\* C38: at most one progress-update task runs for the guild's track at any
\* time, so that a second of playback adds at most one second to the tracked
\* position
C38_OneProgressTask ==
    /\ progress_loops <= 1
    /\ [][CogProgressTick => start_time' <= start_time + 1]_vars

\* C39: the loop mode is always one of 0 (off), 1 (single), 2 (all) and only
\* set_loop_mode changes it: a step that changes the loop mode leaves the
\* queue and the current index as they were, so adding, removing, moving,
\* shuffling or clearing tracks never changes it, the first add after a
\* set_loop_mode included
C39_LoopModeOnlyBySet ==
    /\ loop_mode \in {0, 1, 2}
    /\ [][loop_mode' # loop_mode
            => UNCHANGED <<queues, current_index, qm_known>>]_vars
====
